---- MODULE Spec2Model ----
(***************************************************************************)
(* lignin-html: rendering of a lignin virtual-DOM tree into HTML text.     *)
(*                                                                         *)
(* Strings are sequences of Unicode code points (naturals).  The sink      *)
(* (`target`) is modelled by the list of write calls it received, each     *)
(* with the outcome the sink gave.  A render call is a pure function of    *)
(* the tree, the depth limit and the sink; an action applies it whole.     *)
(***************************************************************************)
EXTENDS Integers, Sequences, FiniteSets, TLC

VARIABLES tree, limit, fail_at, frag, doc

vars == <<tree, limit, fail_at, frag, doc>>

(***************************************************************************)
(* Bounds of the checked input families.                                   *)
(***************************************************************************)
MaxTreeDepth == 3
MaxFailAt == 8
MaxCommentPieces == 3
MaxTextPieces == 3
MaxRawPieces == 3
MaxValuePieces == 2
MaxNamePieces == 3
MaxSplitPieces == 2

(***************************************************************************)
(* Code points that appear as character literals in the source.            *)
(***************************************************************************)
TAB == 9
LF == 10
FF == 12
CR == 13
SPACE == 32
QUOT == 34
AMP == 38
APOS == 39
MINUS == 45
SOLIDUS == 47
LT == 60
EQUALS == 61
GT == 62
BACKTICK == 96
PIPE == 124

(***************************************************************************)
(* String helpers (core::str).                                             *)
(***************************************************************************)
starts_with(s, p) == Len(s) >= Len(p) /\ SubSeq(s, 1, Len(p)) = p

ends_with(s, p) == Len(s) >= Len(p) /\ SubSeq(s, Len(s) - Len(p) + 1, Len(s)) = p

\* s has p at (1-based) index i
HasAt(s, i, p) == i + Len(p) - 1 <= Len(s) /\ SubSeq(s, i, i + Len(p) - 1) = p

to_ascii_lowercase(c) == IF c >= 65 /\ c <= 90 THEN c + 32 ELSE c

eq_ignore_ascii_case(a, b) ==
    /\ Len(a) = Len(b)
    /\ \A i \in 1..Len(a) : to_ascii_lowercase(a[i]) = to_ascii_lowercase(b[i])

is_ascii_alphanumeric(c) ==
    \/ c >= 48 /\ c <= 57
    \/ c >= 65 /\ c <= 90
    \/ c >= 97 /\ c <= 122

\* UTF-8 encoding of one code point, as the bytes a &str holds
Utf8(c) ==
    IF c < 128 THEN <<c>>
    ELSE IF c < 2048 THEN <<192 + (c \div 64), 128 + (c % 64)>>
    ELSE IF c < 65536 THEN <<224 + (c \div 4096), 128 + ((c \div 64) % 64), 128 + (c % 64)>>
    ELSE <<240 + (c \div 262144), 128 + ((c \div 4096) % 64),
           128 + ((c \div 64) % 64), 128 + (c % 64)>>

RECURSIVE as_bytes(_)
as_bytes(s) == IF s = <<>> THEN <<>> ELSE Utf8(Head(s)) \o as_bytes(Tail(s))

\* byte offset (0-based) of the code point at 1-based index i
ByteOffset(s, i) == Len(as_bytes(SubSeq(s, 1, i - 1)))

\* str::is_char_boundary, on a 0-based byte offset
is_char_boundary(s, b) ==
    \/ b = 0
    \/ b = Len(as_bytes(s))
    \/ /\ b < Len(as_bytes(s))
       /\ LET x == as_bytes(s)[b + 1] IN x < 128 \/ x >= 192

\* the code points of s[a..b] for byte offsets a, b that are char boundaries
StrSlice(s, a, b) ==
    LET I == {i \in 1..Len(s) : ByteOffset(s, i) >= a /\ ByteOffset(s, i) < b}
    IN  [k \in 1..Cardinality(I) |-> s[(CHOOSE i \in I : Cardinality({j \in I : j < i}) = k - 1)]]

(***************************************************************************)
(* lignin::Node.  Every node is a record of the same shape; `content`      *)
(* holds the child nodes (one for an element or Memoized).                 *)
(***************************************************************************)
Comment(comment) ==
    [type |-> "Comment", text |-> comment, name |-> <<>>, attributes |-> <<>>, content |-> <<>>]

Text(text) ==
    [type |-> "Text", text |-> text, name |-> <<>>, attributes |-> <<>>, content |-> <<>>]

HtmlElement(name, attributes, content) ==
    [type |-> "HtmlElement", text |-> <<>>, name |-> name, attributes |-> attributes,
     content |-> <<content>>]

SvgElement(name, attributes, content) ==
    [type |-> "SvgElement", text |-> <<>>, name |-> name, attributes |-> attributes,
     content |-> <<content>>]

Memoized(content) ==
    [type |-> "Memoized", text |-> <<>>, name |-> <<>>, attributes |-> <<>>, content |-> <<content>>]

Multi(nodes) ==
    [type |-> "Multi", text |-> <<>>, name |-> <<>>, attributes |-> <<>>, content |-> nodes]

Keyed(nodes) ==
    [type |-> "Keyed", text |-> <<>>, name |-> <<>>, attributes |-> <<>>, content |-> nodes]

RemnantSite ==
    [type |-> "RemnantSite", text |-> <<>>, name |-> <<>>, attributes |-> <<>>, content |-> <<>>]

Attribute(name, value) == [name |-> name, value |-> value]

\* lignin's Node::dom_empty: no DOM node is produced by this subtree
RECURSIVE dom_empty(_)
dom_empty(node) ==
    CASE node.type \in {"Memoized", "Multi", "Keyed"} ->
            \A i \in 1..Len(node.content) : dom_empty(node.content[i])
      [] OTHER -> FALSE

(***************************************************************************)
(* The sink and the state of a running render call.                        *)
(*   writes  : the write calls the sink received, in order                 *)
(*   fail_at : the sink returns Err on its fail_at-th call (0: never)      *)
(*   kind    : "Ok" while running or succeeded, else how the call ended    *)
(*   detail  : what the error carries                                      *)
(***************************************************************************)
Sink(k) == [writes |-> <<>>, fail_at |-> k, kind |-> "Ok", detail |-> <<>>]

NotCalled == [writes |-> <<>>, fail_at |-> 0, kind |-> "NotCalled", detail |-> <<>>]

\* one call of the sink's write_str; a sink error becomes ErrorKind::FmtError
write_str(r, s) ==
    LET ok == Len(r.writes) + 1 # r.fail_at
    IN  [r EXCEPT !.writes = Append(@, [text |-> s, ok |-> ok]),
                  !.kind = IF ok THEN @ ELSE "FmtError"]

write_char(r, c) == write_str(r, <<c>>)

Error(r, kind, detail) == [r EXCEPT !.kind = kind, !.detail = detail]

\* todo!() and unreachable!()
Panic(r) == [r EXCEPT !.kind = "Panic"]

\* the `?` operator: the function returns here when the step before failed
Failed(r) == r.kind # "Ok"

\* `target.write_str(s)?` reached with state r
Wr(r, s) == IF Failed(r) THEN r ELSE write_str(r, s)

\* the text the sink accepted
RECURSIVE Written(_)
Written(writes) ==
    IF writes = <<>> THEN <<>>
    ELSE (IF Head(writes).ok THEN Head(writes).text ELSE <<>>) \o Written(Tail(writes))

Out(r) == Written(r.writes)

(***************************************************************************)
(* String literals of the source.                                          *)
(***************************************************************************)
DOCTYPE == <<60, 33, 68, 79, 67, 84, 89, 80, 69, 32, 104, 116, 109, 108, 62>>  \* "<!DOCTYPE html>"

LtBangDashDash == <<60, 33, 45, 45>>   \* "<!--"

DashDashGt == <<45, 45, 62>>           \* "-->"

DashDashBangGt == <<45, 45, 33, 62>>   \* "--!>"

LtBangDash == <<60, 33, 45>>           \* "<!-"

DashGt == <<45, 62>>                   \* "->"

LtSolidus == <<60, 47>>                \* "</"

EntityLt == <<38, 108, 116, 59>>       \* "&lt;"

EntityAmp == <<38, 97, 109, 112, 59>>  \* "&amp;"

EntityQuot == <<38, 113, 117, 111, 116, 59>>  \* "&quot;"

EntityLtSolidus == <<38, 108, 116, 59, 47>>   \* "&lt;/"

(***************************************************************************)
(* Node::Comment: the CommentToken lexer and its replacements.             *)
(***************************************************************************)
RECURSIVE CommentTokens(_, _, _)
\* mutant: the lexer has no `--!>` token
CommentTokens_without_bang(comment, i, r) ==
    IF Failed(r) \/ i > Len(comment) THEN r
    ELSE IF HasAt(comment, i, LtBangDashDash)
         THEN CommentTokens(comment, i + 4, write_str(r, <<60, 33, 61, 61>>))
    ELSE IF HasAt(comment, i, DashDashGt)
         THEN CommentTokens(comment, i + 3, write_str(r, <<61, 61, 62>>))
    ELSE CommentTokens(comment, i + 1, write_char(r, comment[i]))

CommentTokens(comment, i, r) ==
    IF Failed(r) \/ i > Len(comment) THEN r
    ELSE IF HasAt(comment, i, LtBangDashDash)
         THEN CommentTokens(comment, i + 4, write_str(r, <<60, 33, 61, 61>>))
    ELSE IF HasAt(comment, i, DashDashBangGt)
         THEN CommentTokens(comment, i + 4, write_str(r, <<61, 61, 33, 62>>))
    ELSE IF HasAt(comment, i, DashDashGt)
         THEN CommentTokens(comment, i + 3, write_str(r, <<61, 61, 62>>))
    ELSE CommentTokens(comment, i + 1, write_char(r, comment[i]))

render_comment(comment, r) ==
    LET r1 == write_str(r, LtBangDashDash)
        r2 == IF Failed(r1) THEN r1
              ELSE IF starts_with(comment, <<GT>>) \/ starts_with(comment, DashGt)
                   THEN write_char(r1, PIPE)
                   ELSE r1
        r3 == CommentTokens(comment, 1, r2)
        r4 == IF Failed(r3) THEN r3
              ELSE IF ends_with(comment, LtBangDash) THEN write_char(r3, PIPE) ELSE r3
    IN  Wr(r4, DashDashGt)

(***************************************************************************)
(* Node::Text in normal content: the PlainTextToken lexer.                 *)
(***************************************************************************)
\* the index after the maximal run of code points outside `stop` starting at i
RECURSIVE RunEnd(_, _, _)
RunEnd(text, i, stop) ==
    IF i > Len(text) \/ text[i] \in stop THEN i ELSE RunEnd(text, i + 1, stop)

RECURSIVE PlainTextTokens(_, _, _)
\* mutant: `&` is not a token of its own
PlainTextTokens_amp_verbatim(text, i, r) ==
    IF Failed(r) \/ i > Len(text) THEN r
    ELSE IF text[i] = LT THEN PlainTextTokens(text, i + 1, write_str(r, EntityLt))
    ELSE LET j == RunEnd(text, i, {LT})
         IN  PlainTextTokens(text, j, write_str(r, SubSeq(text, i, j - 1)))

PlainTextTokens(text, i, r) ==
    IF Failed(r) \/ i > Len(text) THEN r
    ELSE IF text[i] = LT THEN PlainTextTokens(text, i + 1, write_str(r, EntityLt))
    ELSE IF text[i] = AMP THEN PlainTextTokens(text, i + 1, write_str(r, EntityAmp))
    ELSE LET j == RunEnd(text, i, {LT, AMP})
         IN  PlainTextTokens(text, j, write_str(r, SubSeq(text, i, j - 1)))

render_text(text, r) == PlainTextTokens(text, 1, r)

(***************************************************************************)
(* Escapable raw text: the EscapableRawTextToken lexer.                    *)
(***************************************************************************)
RECURSIVE EscapableRawTextTokens(_, _, _)
EscapableRawTextTokens(text, i, r) ==
    IF Failed(r) \/ i > Len(text) THEN r
    ELSE IF HasAt(text, i, LtSolidus)
         THEN EscapableRawTextTokens(text, i + 2, write_str(r, EntityLtSolidus))
    ELSE IF text[i] = LT THEN EscapableRawTextTokens(text, i + 1, write_char(r, LT))
    ELSE IF text[i] = AMP THEN EscapableRawTextTokens(text, i + 1, write_str(r, EntityAmp))
    ELSE LET j == RunEnd(text, i, {LT, AMP})
         IN  EscapableRawTextTokens(text, j, write_str(r, SubSeq(text, i, j - 1)))

(***************************************************************************)
(* Raw text: the RawTextToken lexer with its check_for_error callback.     *)
(***************************************************************************)
\* "ok", "err" (with the 0-based byte range start..end), or "panic" when the
\* slice text[name_range] does not end on a char boundary
check_for_error(text, element_name, i) ==
    LET start == ByteOffset(text, i)
        end == start + 2
        name_end == end + Len(as_bytes(element_name))
    IN  IF name_end + 1 > Len(as_bytes(text)) THEN [res |-> "ok", start |-> 0, end |-> 0]
        ELSE IF ~is_char_boundary(text, name_end) THEN [res |-> "panic", start |-> 0, end |-> 0]
        ELSE IF ~eq_ignore_ascii_case(StrSlice(text, end, name_end), element_name)
             THEN [res |-> "ok", start |-> 0, end |-> 0]
        ELSE IF as_bytes(text)[name_end + 1] \in {TAB, LF, FF, CR, SPACE, GT, SOLIDUS}
             THEN [res |-> "err", start |-> start, end |-> name_end + 1]
        ELSE [res |-> "ok", start |-> 0, end |-> 0]

RECURSIVE RawTextTokens(_, _, _, _)
RawTextTokens(text, element_name, i, r) ==
    IF Failed(r) \/ i > Len(text) THEN r
    ELSE IF HasAt(text, i, LtSolidus)
         THEN LET c == check_for_error(text, element_name, i)
              IN  CASE c.res = "panic" -> Panic(r)
                    [] c.res = "err" ->
                         Error(r, "ElementClosedInRawText", StrSlice(text, c.start, c.end))
                    [] OTHER -> RawTextTokens(text, element_name, i + 2, write_str(r, LtSolidus))
    ELSE IF text[i] = LT THEN RawTextTokens(text, element_name, i + 1, write_char(r, LT))
    ELSE LET j == RunEnd(text, i, {LT})
         IN  RawTextTokens(text, element_name, j, write_str(r, SubSeq(text, i, j - 1)))

(***************************************************************************)
(* Attributes.                                                             *)
(***************************************************************************)
\* TRUE iff validate_attribute_name returns Ok(name)
validate_attribute_name(name) ==
    \A i \in 1..Len(name) :
        LET c == name[i]
        IN  /\ ~(c >= 0 /\ c <= 31)
            /\ ~(c >= 127 /\ c <= 159)
            /\ c \notin {SPACE, QUOT, APOS, GT, SOLIDUS, EQUALS}
            /\ ~(c >= 64976 /\ c <= 65007)
            /\ ~((c % 65536) >= 65534 /\ (c \div 65536) <= 16)

RECURSIVE ValueFlags(_, _, _)
ValueFlags(value, i, f) ==
    IF i > Len(value) THEN f
    ELSE LET c == value[i]
         IN  ValueFlags(value, i + 1,
                CASE c \in {TAB, LF, FF, CR, SPACE, EQUALS, LT, GT, BACKTICK} ->
                        [f EXCEPT !.unquoted = FALSE]
                  [] c = QUOT -> [f EXCEPT !.unquoted = FALSE, !.double_quoted = FALSE]
                  [] c = APOS -> [f EXCEPT !.unquoted = FALSE, !.single_quoted = FALSE]
                  [] OTHER -> f)

\* mutant: a value holding both quotes is single-quoted
AttributeValueMode_detect_single_quoted_last(value) ==
    IF value = <<>> THEN "Empty"
    ELSE LET f == ValueFlags(value, 1,
                     [unquoted |-> TRUE, double_quoted |-> TRUE, single_quoted |-> TRUE])
         IN  IF f.unquoted THEN "Unquoted"
             ELSE IF f.double_quoted THEN "DoubleQuoted"
             ELSE "SingleQuoted"

AttributeValueMode_detect(value) ==
    IF value = <<>> THEN "Empty"
    ELSE LET f == ValueFlags(value, 1,
                     [unquoted |-> TRUE, double_quoted |-> TRUE, single_quoted |-> TRUE])
         IN  IF f.unquoted THEN "Unquoted"
             ELSE IF f.double_quoted THEN "DoubleQuoted"
             ELSE IF f.single_quoted THEN "SingleQuoted"
             ELSE "DoubleQuoted"

\* what is written between the attribute's name and its value
ValueOpening(value_mode) ==
    CASE value_mode = "Unquoted" -> <<EQUALS>>
      [] value_mode = "SingleQuoted" -> <<EQUALS, APOS>>
      [] value_mode = "DoubleQuoted" -> <<QUOT>>

RECURSIVE ValueChars(_, _, _, _)
ValueChars(value, i, value_mode, r) ==
    IF Failed(r) \/ i > Len(value) THEN r
    ELSE ValueChars(value, i + 1, value_mode,
            IF value[i] = AMP THEN write_str(r, EntityAmp)
            ELSE IF value[i] = QUOT /\ value_mode = "DoubleQuoted" THEN write_str(r, EntityQuot)
            ELSE write_char(r, value[i]))

RECURSIVE Attributes(_, _, _)
Attributes(attributes, i, r) ==
    IF Failed(r) \/ i > Len(attributes) THEN r
    ELSE LET a == attributes[i]
             value_mode == AttributeValueMode_detect(a.value)
             r1 == Wr(write_str(r, <<SPACE>>), a.name)
             r2 == write_str(r1, ValueOpening(value_mode))
             r3 == ValueChars(a.value, 1, value_mode, r2)
             r4 == IF Failed(r3) THEN r3
                   ELSE CASE value_mode = "Unquoted" -> r3
                          [] value_mode = "SingleQuoted" -> write_char(r3, APOS)
                          [] value_mode = "DoubleQuoted" -> write_char(r3, QUOT)
         IN  IF ~validate_attribute_name(a.name) THEN Error(r, "InvalidAttributeName", a.name)
             ELSE IF Failed(r1) THEN r1
             ELSE IF value_mode = "Empty" THEN Attributes(attributes, i + 1, r1)
             ELSE Attributes(attributes, i + 1, r4)

(***************************************************************************)
(* ElementKind: the lexer over the element name, and detect.               *)
(***************************************************************************)
VoidNames ==
    { <<97, 114, 101, 97>>,             \* area
      <<98, 97, 115, 101>>,             \* base
      <<98, 114>>,                      \* br
      <<99, 111, 108>>,                 \* col
      <<101, 109, 98, 101, 100>>,       \* embed
      <<104, 114>>,                     \* hr
      <<105, 109, 103>>,                \* img
      <<105, 110, 112, 117, 116>>,      \* input
      <<108, 105, 110, 107>>,           \* link
      <<109, 101, 116, 97>>,            \* meta
      <<112, 97, 114, 97, 109>>,        \* param
      <<115, 111, 117, 114, 99, 101>>,  \* source
      <<116, 114, 97, 99, 107>>,        \* track
      <<119, 98, 114>> }                \* wbr

TemplateNames == { <<116, 101, 109, 112, 108, 97, 116, 101>> }   \* template

RawTextNames ==
    { <<115, 99, 114, 105, 112, 116>>,  \* script
      <<115, 116, 121, 108, 101>> }     \* style

TextareaNames == { <<116, 101, 120, 116, 97, 114, 101, 97>> }    \* textarea

TitleNames == { <<116, 105, 116, 108, 101>> }                    \* title

\* (?i): the code point a code point is matched as.  The patterns are matched
\* over a str, where case-insensitivity is Unicode simple case folding: beside
\* the ASCII letters of the other case, U+212A KELVIN SIGN matches as k and
\* U+017F LATIN SMALL LETTER LONG S as s.
CaseFold(c) ==
    IF c = 8490 THEN 107
    ELSE IF c = 383 THEN 115
    ELSE to_ascii_lowercase(c)

Lowercase(s) == [i \in 1..Len(s) |-> CaseFold(s[i])]

PotentialCustomElementNameCharacter(c) ==
    \/ c \in {46, 95, 183}
    \/ c >= 192 /\ c <= 214
    \/ c >= 216 /\ c <= 246
    \/ c >= 248 /\ c <= 893
    \/ c >= 895 /\ c <= 8191
    \/ c >= 8204 /\ c <= 8205
    \/ c >= 8255 /\ c <= 8256
    \/ c >= 8304 /\ c <= 8591
    \/ c >= 11264 /\ c <= 12271
    \/ c >= 12289 /\ c <= 55295
    \/ c >= 63744 /\ c <= 64975
    \/ c >= 65008 /\ c <= 65533
    \/ c >= 65536 /\ c <= 983039

\* the kind of a case-folded slice: that of the fixed name it is, else Normal
FixedKind(l) ==
    CASE l \in VoidNames -> "Void"
      [] l \in TemplateNames -> "Template"
      [] l \in RawTextNames -> "RawText"
      [] l \in TextareaNames -> "EscapableRawTextTextarea"
      [] l \in TitleNames -> "EscapableRawText"
      [] OTHER -> "Normal"

\* the lengths L, from `least` up to `most`, at which a fixed-name pattern matches
\* the L code points from index i (no fixed name is a prefix of another, so there
\* is at most one)
FixedAt(element_name, i, least, most) ==
    {L \in least..most :
        L > 0 /\ FixedKind(Lowercase(SubSeq(element_name, i, i + L - 1))) # "Normal"}

\* the index after the run [0-9A-Za-z]+ from i
NormalEnd(element_name, i) ==
    RunEnd(element_name, i,
           {element_name[n] : n \in {n \in i..Len(element_name) :
                 ~is_ascii_alphanumeric(element_name[n])}})

\* the index after the run from j of code points a fixed-name pattern can match
FoldedEnd(element_name, j) ==
    RunEnd(element_name, j,
           {element_name[n] : n \in {n \in j..Len(element_name) :
                 ~is_ascii_alphanumeric(CaseFold(element_name[n]))}})

RECURSIVE ElementKindLexer(_, _)
\* the token at index i, and the tokens after it: j ends the Normal run from i,
\* fixed holds the length of the fixed name that is not shorter than that run
ElementKindToken(element_name, i, j, fixed) ==
    IF fixed # {}
    THEN LET L == CHOOSE L \in fixed : TRUE
         IN  <<FixedKind(Lowercase(SubSeq(element_name, i, i + L - 1)))>>
                 \o ElementKindLexer(element_name, i + L)
    ELSE IF j > i
         THEN <<"Normal">> \o ElementKindLexer(element_name, j)
    ELSE IF PotentialCustomElementNameCharacter(element_name[i])
         THEN <<"PotentialCustomElementNameCharacter">> \o ElementKindLexer(element_name, i + 1)
    ELSE IF element_name[i] = MINUS
         THEN <<"Dash">> \o ElementKindLexer(element_name, i + 1)
    ELSE <<"Invalid">> \o ElementKindLexer(element_name, i + 1)

\* the longest match from index i, j ending the Normal run: a fixed name that is
\* not shorter than that run has a length from j - i up to the end of the run of
\* code points its pattern can match
ElementKindLongest(element_name, i, j) ==
    ElementKindToken(element_name, i, j,
                     FixedAt(element_name, i, j - i, FoldedEnd(element_name, j) - i))

\* the tokens the ElementKind lexer yields from index i on: the longest match
\* wins, and a fixed name wins over Normal at equal length
ElementKindLexer(element_name, i) ==
    IF i > Len(element_name) THEN <<>>
    ELSE ElementKindLongest(element_name, i, NormalEnd(element_name, i))

\* detect, on the tokens of the name
ElementKind_of(tokens) ==
    IF tokens = <<>>
       \/ Head(tokens) \in {"Dash", "PotentialCustomElementNameCharacter", "Invalid"}
    THEN [ok |-> FALSE, kind |-> "Invalid"]
    ELSE IF \E i \in 2..Len(tokens) : tokens[i] = "Invalid"
         THEN [ok |-> FALSE, kind |-> "Invalid"]
    ELSE IF /\ \E i \in 2..Len(tokens) : tokens[i] = "PotentialCustomElementNameCharacter"
            /\ ~\E i \in 2..Len(tokens) : tokens[i] = "Dash"
         THEN [ok |-> FALSE, kind |-> "Invalid"]
    ELSE [ok |-> TRUE, kind |-> IF Len(tokens) = 1 THEN Head(tokens) ELSE "Normal"]

\* [ok, kind]: Ok(kind) or Err(element_name)
ElementKind_detect(element_name) == ElementKind_of(ElementKindLexer(element_name, 1))

(***************************************************************************)
(* The serialization walk.  Each function takes the running state r (the   *)
(* sink so far) and returns the state in which the call ended.             *)
(***************************************************************************)
RECURSIVE render_fragment(_, _, _)
RECURSIVE render_fragment_nodes(_, _, _, _)
RECURSIVE render_raw_text(_, _, _, _)
RECURSIVE render_raw_text_nodes(_, _, _, _, _)
RECURSIVE render_escapable_raw_text(_, _, _)
RECURSIVE render_escapable_raw_text_nodes(_, _, _, _)
RECURSIVE render_element(_, _, _)

\* the opening tag up to and including `>` (or ` />`)
opening_tag(name, attributes, kind, r) ==
    LET r1 == Wr(write_str(r, <<LT>>), name)
        r2 == Attributes(attributes, 1, r1)
    IN  IF Failed(r2) THEN r2
        ELSE IF kind = "ForeignSelfClosing" THEN write_str(r2, <<SPACE, SOLIDUS, GT>>)
        ELSE write_char(r2, GT)

\* the newline after the opening tag of textarea and pre-like elements
leading_newline(kind, r) ==
    IF Failed(r) THEN r
    ELSE IF kind \in {"EscapableRawTextTextarea", "NormalPre"} THEN write_char(r, LF)
    ELSE r

closing_tag(name, kind, r) ==
    IF Failed(r) THEN r
    ELSE IF kind \in {"Void", "ForeignSelfClosing"} THEN r
    ELSE IF kind \in {"Template", "RawText", "EscapableRawText", "EscapableRawTextTextarea",
                      "ForeignNotSelfClosing", "Normal", "NormalPre"}
         THEN Wr(Wr(write_str(r, LtSolidus), name), <<GT>>)
    ELSE Panic(r)

\* the content of an element of the given kind, after its opening tag
render_content(vdom, kind, r1, depth_limit) ==
    IF Failed(r1) THEN r1
    ELSE CASE kind \in {"Void", "ForeignSelfClosing"} ->
                  IF ~dom_empty(vdom.content[1])
                  THEN Error(r1, "NonEmptyVoidElementContent", vdom.content[1])
                  ELSE r1
           [] kind \in {"Template", "Normal", "NormalPre", "ForeignNotSelfClosing"} ->
                  render_fragment(vdom.content[1], r1, depth_limit - 1)
           [] kind = "RawText" ->
                  render_raw_text(vdom.content[1], r1, vdom.name, depth_limit - 1)
           [] kind \in {"EscapableRawText", "EscapableRawTextTextarea"} ->
                  render_escapable_raw_text(vdom.content[1], r1, depth_limit - 1)
           [] OTHER -> Panic(r1)

\* the element once its name is classified
render_element_of(vdom, detected, r, depth_limit) ==
    IF ~detected.ok THEN Error(r, "InvalidElementName", vdom.name)
    ELSE closing_tag(vdom.name, detected.kind,
            render_content(vdom, detected.kind,
                leading_newline(detected.kind,
                    opening_tag(vdom.name, vdom.attributes, detected.kind, r)),
                depth_limit))

render_element(vdom, r, depth_limit) ==
    render_element_of(vdom, ElementKind_detect(vdom.name), r, depth_limit)

\* mutant: the loop goes on after a child's error
render_fragment_nodes_ignoring_error(nodes, i, r, depth_limit) ==
    IF i > Len(nodes) THEN r
    ELSE render_fragment_nodes(nodes, i + 1, render_fragment(nodes[i], r, depth_limit - 1),
                               depth_limit)

\* mutant: the children are rendered with the parent's budget
render_fragment_nodes_same_budget(nodes, i, r, depth_limit) ==
    IF Failed(r) \/ i > Len(nodes) THEN r
    ELSE render_fragment_nodes(nodes, i + 1, render_fragment(nodes[i], r, depth_limit),
                               depth_limit)

render_fragment_nodes(nodes, i, r, depth_limit) ==
    IF Failed(r) \/ i > Len(nodes) THEN r
    ELSE render_fragment_nodes(nodes, i + 1, render_fragment(nodes[i], r, depth_limit - 1),
                               depth_limit)

render_fragment(vdom, r, depth_limit) ==
    IF depth_limit = 0 THEN Error(r, "DepthLimitExceeded", vdom)
    ELSE CASE vdom.type = "Comment" -> render_comment(vdom.text, r)
           [] vdom.type \in {"HtmlElement", "SvgElement"} -> render_element(vdom, r, depth_limit)
           [] vdom.type = "Memoized" -> render_fragment(vdom.content[1], r, depth_limit - 1)
           [] vdom.type \in {"Multi", "Keyed"} ->
                  render_fragment_nodes(vdom.content, 1, r, depth_limit)
           [] vdom.type = "Text" -> render_text(vdom.text, r)
           [] vdom.type = "RemnantSite" -> Panic(r)

render_raw_text_nodes(nodes, i, r, element_name, depth_limit) ==
    IF Failed(r) \/ i > Len(nodes) THEN r
    ELSE render_raw_text_nodes(nodes, i + 1,
                               render_raw_text(nodes[i], r, element_name, depth_limit - 1),
                               element_name, depth_limit)

render_raw_text(vdom, r, element_name, depth_limit) ==
    IF depth_limit = 0 THEN Error(r, "DepthLimitExceeded", vdom)
    ELSE CASE vdom.type \in {"Comment", "HtmlElement", "SvgElement"} ->
                  Error(r, "NonTextDomNodeInRawTextPosition", vdom)
           [] vdom.type = "Memoized" ->
                  render_raw_text(vdom.content[1], r, element_name, depth_limit - 1)
           [] vdom.type \in {"Multi", "Keyed"} ->
                  render_raw_text_nodes(vdom.content, 1, r, element_name, depth_limit)
           [] vdom.type = "Text" -> RawTextTokens(vdom.text, element_name, 1, r)
           [] vdom.type = "RemnantSite" -> Panic(r)

render_escapable_raw_text_nodes(nodes, i, r, depth_limit) ==
    IF Failed(r) \/ i > Len(nodes) THEN r
    ELSE render_escapable_raw_text_nodes(nodes, i + 1,
                               render_escapable_raw_text(nodes[i], r, depth_limit - 1),
                               depth_limit)

render_escapable_raw_text(vdom, r, depth_limit) ==
    IF depth_limit = 0 THEN Error(r, "DepthLimitExceeded", vdom)
    ELSE CASE vdom.type \in {"Comment", "HtmlElement", "SvgElement"} ->
                  Error(r, "NonTextDomNodeInEscapableRawTextPosition", vdom)
           [] vdom.type = "Memoized" ->
                  render_escapable_raw_text(vdom.content[1], r, depth_limit - 1)
           [] vdom.type \in {"Multi", "Keyed"} ->
                  render_escapable_raw_text_nodes(vdom.content, 1, r, depth_limit)
           [] vdom.type = "Text" -> EscapableRawTextTokens(vdom.text, 1, r)
           [] vdom.type = "RemnantSite" -> Panic(r)

\* mutant: the DOCTYPE is charged one level of the budget
render_document_charging_doctype(vdom, r, depth_limit) ==
    IF depth_limit = 0 THEN Error(r, "DepthLimitExceeded", vdom)
    ELSE LET r1 == write_str(r, DOCTYPE)
         IN  IF Failed(r1) THEN r1 ELSE render_fragment(vdom, r1, depth_limit - 1)

render_document(vdom, r, depth_limit) ==
    IF depth_limit = 0 THEN Error(r, "DepthLimitExceeded", vdom)
    ELSE LET r1 == write_str(r, DOCTYPE)
         IN  IF Failed(r1) THEN r1 ELSE render_fragment(vdom, r1, depth_limit)

(***************************************************************************)
(* Input families.                                                         *)
(***************************************************************************)
\* every concatenation of at most n pieces
RECURSIVE Concats(_, _)
Concats(pieces, n) ==
    IF n = 0 THEN {<<>>}
    ELSE LET S == Concats(pieces, n - 1) IN S \cup {s \o p : s \in S, p \in pieces}

Div == <<100, 105, 118>>

Br == <<98, 114>>

Script == <<115, 99, 114, 105, 112, 116>>

Title == <<116, 105, 116, 108, 101>>

Leaves == {Text(<<97>>), Text(<<60, 38>>), Comment(<<120>>), RemnantSite, Multi(<<>>)}

\* content of a void element holds no RemnantSite (dom_empty is not defined on it)
VoidContents == {Multi(<<>>), Memoized(Multi(<<>>)), Text(<<97>>)}

Grow(S) ==
    S \cup {HtmlElement(n, <<>>, c) : n \in {Div, Script, Title}, c \in S}
      \cup {HtmlElement(Br, <<>>, c) : c \in VoidContents}
      \cup {Memoized(c) : c \in S}
      \cup {Multi(<<c, Text(<<97>>)>>) : c \in S}
      \cup {Keyed(<<Text(<<97>>), c>>) : c \in S}

RECURSIVE Trees(_)
Trees(n) == IF n <= 1 THEN Leaves ELSE Grow(Trees(n - 1))

(***************************************************************************)
(* The state machine: the inputs are drawn by Init; each entry point is    *)
(* called once on them.                                                    *)
(***************************************************************************)
Init ==
    /\ tree \in Trees(MaxTreeDepth)
    /\ limit \in 0..(MaxTreeDepth + 1)
    /\ fail_at \in 0..MaxFailAt
    /\ frag = NotCalled
    /\ doc = NotCalled

RenderFragment ==
    /\ frag.kind = "NotCalled"
    /\ frag' = render_fragment(tree, Sink(fail_at), limit)
    /\ UNCHANGED <<tree, limit, fail_at, doc>>

RenderDocument ==
    /\ doc.kind = "NotCalled"
    /\ doc' = render_document(tree, Sink(fail_at), limit)
    /\ UNCHANGED <<tree, limit, fail_at, frag>>

Next == RenderFragment \/ RenderDocument

Spec == Init /\ [][Next]_vars

\* comments: bodies made of the sequences the rewriter looks for
CommentPieces ==
    {LtBangDashDash, DashDashGt, DashDashBangGt, LtBangDash, <<MINUS>>, <<GT>>, <<LT>>,
     <<33>>, <<120>>}

InitComment ==
    /\ tree \in {Comment(b) : b \in Concats(CommentPieces, MaxCommentPieces)}
    /\ limit \in 1..2
    /\ fail_at = 0
    /\ frag = NotCalled
    /\ doc = NotCalled

SpecComment == InitComment /\ [][Next]_vars

\* text nodes in normal content
TextPieces == {<<LT>>, <<AMP>>, <<GT>>, <<97>>, <<233>>, LtSolidus}

InitText ==
    /\ tree \in {Text(b) : b \in Concats(TextPieces, MaxTextPieces)}
    /\ limit \in 1..2
    /\ fail_at = 0
    /\ frag = NotCalled
    /\ doc = NotCalled

SpecText == InitText /\ [][Next]_vars

\* elements with attributes
ValuePieces ==
    {<<97>>, <<SPACE>>, <<QUOT>>, <<APOS>>, <<AMP>>, <<EQUALS>>, <<LT>>, <<BACKTICK>>, <<TAB>>}

AttributeNames == { <<105, 100>>, <<97, 32, 98>> }    \* "id", "a b"

AttributeLists ==
    {<<>>}
      \cup {<<Attribute(n, v)>> : n \in AttributeNames, v \in Concats(ValuePieces, MaxValuePieces)}
      \cup {<<Attribute(<<105, 100>>, v), Attribute(<<99, 108, 97, 115, 115>>, w)>> :
                v \in Concats(ValuePieces, 1), w \in Concats(ValuePieces, 1)}

InitAttr ==
    /\ tree \in {HtmlElement(Div, a, Multi(<<>>)) : a \in AttributeLists}
    /\ limit \in 2..3
    /\ fail_at = 0
    /\ frag = NotCalled
    /\ doc = NotCalled

SpecAttr == InitAttr /\ [][Next]_vars

\* raw-text elements with a single text node
Style == <<83, 116, 121, 108, 101>>    \* "Style"

RawPieces ==
    {LtSolidus, <<LT>>, <<GT>>, <<120>>, <<233>>, Script,
     <<115, 99, 114, 105, 112>>,        \* "scrip"
     <<115, 116, 121, 108, 101>>}       \* "style"

InitRaw ==
    /\ tree \in {HtmlElement(n, <<>>, Text(b)) :
                    n \in {Script, Style}, b \in Concats(RawPieces, MaxRawPieces)}
    /\ limit \in 2..3
    /\ fail_at = 0
    /\ frag = NotCalled
    /\ doc = NotCalled

SpecRaw == InitRaw /\ [][Next]_vars

\* one element of each kind, with little content
ElementNames ==
    { Br, Div, Script, Title,
      <<66, 82>>,                               \* "BR"
      <<105, 109, 103>>,                        \* "img"
      <<112, 114, 101>>,                        \* "pre"
      <<108, 105, 115, 116, 105, 110, 103>>,    \* "listing"
      <<116, 101, 120, 116, 97, 114, 101, 97>>, \* "textarea"
      <<84, 101, 120, 116, 65, 114, 101, 97>> } \* "TextArea"

ElementAttributes ==
    { <<>>,
      <<Attribute(<<105, 100>>, <<97>>)>>,                        \* id=a
      <<Attribute(<<116, 105, 116, 108, 101>>, <<97, 32, 98>>)>> } \* title="a b"

ElementContents ==
    {Multi(<<>>), Memoized(Multi(<<>>)), Text(<<97>>), Multi(<<Text(<<97>>), Text(<<98>>)>>)}

InitElem ==
    /\ tree \in {HtmlElement(n, a, c) :
                    n \in ElementNames, a \in ElementAttributes, c \in ElementContents}
    /\ limit \in 1..3
    /\ fail_at = 0
    /\ frag = NotCalled
    /\ doc = NotCalled

SpecElem == InitElem /\ [][Next]_vars

\* element names: letters of both cases, a digit, `-`, continuation code points
\* (`.`, U+00E9, U+017F, U+212A), a code point no token matches (SPACE), and
\* fixed names whole and in parts
NamePieces ==
    { <<97>>, <<49>>, <<66>>, <<114>>, <<MINUS>>, <<46>>, <<SPACE>>, <<233>>,
      <<383>>, <<8490>>, Br, Title,
      <<108, 105, 110>>,                         \* "lin"
      <<99, 114, 105, 112, 116>>,                \* "cript"
      <<84, 101, 120, 116, 65, 114, 101, 97>>,   \* "TextArea"
      <<116, 101, 109, 112, 108, 97, 116, 101>> }  \* "template"

InitName ==
    /\ tree \in {HtmlElement(n, <<>>, Multi(<<>>)) : n \in Concats(NamePieces, MaxNamePieces)}
    /\ limit \in 2..3
    /\ fail_at = 0
    /\ frag = NotCalled
    /\ doc = NotCalled

SpecName == InitName /\ [][Next]_vars

\* raw-text and escapable-raw-text elements whose body is split over two Text
\* nodes under Memoized/Multi/Keyed wrappers
Textarea == <<116, 101, 120, 116, 97, 114, 101, 97>>

SplitPieces(n) == {LtSolidus, <<LT>>, <<SOLIDUS>>, <<120>>, n, n \o <<GT>>, n \o <<SPACE>>}

SplitContents(a, b) ==
    { Multi(<<Text(a), Text(b)>>),
      Keyed(<<Text(a), Text(b)>>),
      Memoized(Multi(<<Text(a), Text(b)>>)),
      Multi(<<Memoized(Text(a)), Multi(<<Text(b)>>)>>) }

\* every split of a body into the texts of two adjacent Text nodes
Splits(B) == {<<SubSeq(B, 1, k), SubSeq(B, k + 1, Len(B))>> : k \in 0..Len(B)}

\* the trees over the element name n
SplitTrees(n) ==
    UNION {{HtmlElement(n, <<>>, c) : c \in SplitContents(ab[1], ab[2])} :
              ab \in UNION {Splits(B) : B \in Concats(SplitPieces(n), MaxSplitPieces)}}

InitSplit ==
    /\ tree \in UNION {SplitTrees(n) : n \in {Script, Style, Title, Textarea}}
    /\ limit \in 4..5
    /\ fail_at = 0
    /\ frag = NotCalled
    /\ doc = NotCalled

SpecSplit == InitSplit /\ [][Next]_vars

(***************************************************************************)
(* Properties.                                                             *)
(***************************************************************************)
Called(r) == r.kind # "NotCalled"

\* a name in ASCII lower case
AsciiLowercase(s) == [i \in 1..Len(s) |-> to_ascii_lowercase(s[i])]

Contains(s, p) == \E i \in 1..Len(s) : HasAt(s, i, p)

SetMax(S) == CHOOSE x \in S : \A y \in S : y <= x

\* the number of nodes on the longest path from the root, every child one level down
RECURSIVE NodeDepth(_)
NodeDepth(node) ==
    1 + SetMax({0} \cup {NodeDepth(node.content[i]) : i \in 1..Len(node.content)})

\* the same, but the content of a void element is not counted
RECURSIVE WalkDepth(_)
WalkDepth(node) ==
    IF node.type \in {"HtmlElement", "SvgElement"} /\ AsciiLowercase(node.name) \in VoidNames THEN 1
    ELSE 1 + SetMax({0} \cup {WalkDepth(node.content[i]) : i \in 1..Len(node.content)})

\* the tree renders without error when the budget is no obstacle
RendersWithBudget(node) == render_fragment(node, Sink(0), NodeDepth(node)).kind = "Ok"

\* C1 (as stated): for every tree and every depth limit d >= 0, with a sink that
\* accepts every write, render_document writes "<!DOCTYPE html>" followed by what
\* render_fragment writes, and both calls end the same way.
DocumentIsDoctypeThenFragment ==
    (Called(frag) /\ Called(doc) /\ fail_at = 0) =>
        /\ Out(doc) = DOCTYPE \o Out(frag)
        /\ doc.kind = frag.kind

\* C1 (amended): the same for every depth limit d >= 1; at d = 0 both calls fail
\* with DepthLimitExceeded and render_document writes nothing, not even the DOCTYPE.
DocumentIsDoctypeThenFragmentFromDepthOne ==
    (Called(frag) /\ Called(doc) /\ fail_at = 0) =>
        /\ doc.kind = frag.kind
        /\ limit >= 1 => Out(doc) = DOCTYPE \o Out(frag)
        /\ limit = 0 => doc.kind = "DepthLimitExceeded" /\ doc.writes = <<>>

DocumentAndFragmentRendered ==
    /\ Called(frag) /\ Called(doc) /\ fail_at = 0 /\ limit >= 2
    /\ tree.type = "HtmlElement"
    /\ frag.kind = "Ok" /\ doc.kind = "Ok"
    /\ Len(Out(doc)) > Len(DOCTYPE)

\* C2 (as stated): with depth(T) counting every child one level down, a tree that
\* renders without other error succeeds (with one and the same output) for every
\* d >= depth(T) and fails with DepthLimitExceeded for every d < depth(T).
DepthLimitIsNodeDepth ==
    (Called(frag) /\ fail_at = 0 /\ RendersWithBudget(tree)) =>
        IF limit >= NodeDepth(tree)
        THEN /\ frag.kind = "Ok"
             /\ Out(frag) = Out(render_fragment(tree, Sink(0), NodeDepth(tree)))
        ELSE frag.kind = "DepthLimitExceeded"

\* C2 (amended): the same with depth(T) not counting the content of a void
\* element, which is only tested for DOM-emptiness and never walked.
DepthLimitIsWalkDepth ==
    (Called(frag) /\ fail_at = 0 /\ RendersWithBudget(tree)) =>
        IF limit >= WalkDepth(tree)
        THEN /\ frag.kind = "Ok"
             /\ Out(frag) = Out(render_fragment(tree, Sink(0), NodeDepth(tree)))
        ELSE frag.kind = "DepthLimitExceeded"

DepthLimitMissedByOne ==
    /\ Called(frag) /\ fail_at = 0 /\ RendersWithBudget(tree)
    /\ limit >= 2 /\ limit + 1 = WalkDepth(tree)
    /\ frag.kind = "DepthLimitExceeded"
    /\ frag.writes # <<>>

\* C9 (as stated): a call that reaches a RemnantSite node returns the failure value
\* RemnantSiteNotImplemented; no call ends by panicking.
RemnantSiteIsReturnedAsError ==
    /\ Called(frag) => frag.kind # "Panic"
    /\ Called(doc) => doc.kind # "Panic"
    /\ (Called(frag) /\ tree.type = "RemnantSite" /\ limit >= 1) =>
            frag.kind = "RemnantSiteNotImplemented"

\* the sink's first error is its last call, and the call ends as FmtError
HaltsOnSinkError(r) ==
    /\ \A i \in 1..Len(r.writes) : ~r.writes[i].ok => i = Len(r.writes)
    /\ (\E i \in 1..Len(r.writes) : ~r.writes[i].ok) <=> r.kind = "FmtError"

\* C10: once a write to the sink returns an error, the call attempts no further
\* write, at any recursion level, and returns that error as the sink-error kind.
SinkErrorEndsTheCall ==
    /\ Called(frag) => HaltsOnSinkError(frag)
    /\ Called(doc) => HaltsOnSinkError(doc)

SinkFailedInsideNestedContent ==
    /\ Called(frag) /\ frag.kind = "FmtError"
    /\ tree.type = "HtmlElement" /\ tree.content[1].type \in {"Multi", "Keyed"}
    /\ fail_at >= 3 /\ Len(frag.writes) = fail_at
    /\ render_fragment(tree, Sink(0), limit).kind = "Ok"
    /\ Len(render_fragment(tree, Sink(0), limit).writes) > fail_at

\* C3: the text emitted for Comment(B) begins with `<!--`, ends with `-->`, and
\* what lies between contains no `<!--`, `-->` or `--!>`, does not begin with `>`
\* or `->` and does not end with `<!-`.
CommentIsDelimitedAndInert ==
    (Called(frag) /\ tree.type = "Comment") =>
        /\ frag.kind = "Ok"
        /\ LET o == Out(frag)
               inner == SubSeq(o, 5, Len(o) - 3)
           IN  /\ Len(o) >= 7
               /\ starts_with(o, LtBangDashDash)
               /\ ends_with(o, DashDashGt)
               /\ ~Contains(inner, LtBangDashDash)
               /\ ~Contains(inner, DashDashGt)
               /\ ~Contains(inner, DashDashBangGt)
               /\ ~starts_with(inner, <<GT>>)
               /\ ~starts_with(inner, DashGt)
               /\ ~ends_with(inner, LtBangDash)

CommentWithForbiddenSequencesRendered ==
    /\ Called(frag) /\ frag.kind = "Ok" /\ tree.type = "Comment"
    /\ starts_with(tree.text, <<GT>>)
    /\ Contains(tree.text, DashDashBangGt)
    /\ ends_with(tree.text, LtBangDash)

\* B with `<` replaced by `&lt;` and `&` by `&amp;`, code point by code point
RECURSIVE EscapedText(_)
EscapedText(s) ==
    IF s = <<>> THEN <<>>
    ELSE (CASE Head(s) = LT -> EntityLt
            [] Head(s) = AMP -> EntityAmp
            [] OTHER -> <<Head(s)>>) \o EscapedText(Tail(s))

\* C6: Text(B) in normal content renders successfully as B with every `<` replaced
\* by `&lt;`, every `&` by `&amp;` and every other code point unchanged; the output
\* holds no `<`, and is B itself when B holds neither `<` nor `&`.
TextIsEscaped ==
    (Called(frag) /\ tree.type = "Text") =>
        /\ frag.kind = "Ok"
        /\ Out(frag) = EscapedText(tree.text)
        /\ ~Contains(Out(frag), <<LT>>)
        /\ (~Contains(tree.text, <<LT>>) /\ ~Contains(tree.text, <<AMP>>)) => Out(frag) = tree.text

TextWithBothSpecialsRendered ==
    /\ Called(frag) /\ frag.kind = "Ok" /\ tree.type = "Text"
    /\ Contains(tree.text, <<LT>>) /\ Contains(tree.text, <<AMP>>) /\ Contains(tree.text, <<233>>)

\* the value as the claim writes it: `&` as `&amp;`, and `"` as `&quot;` when double-quoted
RECURSIVE ExpectedValue(_, _)
ExpectedValue(v, mode) ==
    IF v = <<>> THEN <<>>
    ELSE (CASE Head(v) = AMP -> EntityAmp
            [] Head(v) = QUOT /\ mode = "DoubleQuoted" -> EntityQuot
            [] OTHER -> <<Head(v)>>) \o ExpectedValue(Tail(v), mode)

ExpectedQuote(mode) ==
    CASE mode = "SingleQuoted" -> <<APOS>>
      [] mode = "DoubleQuoted" -> <<QUOT>>
      [] OTHER -> <<>>

ExpectedAttribute(a) ==
    LET mode == AttributeValueMode_detect(a.value)
    IN  <<SPACE>> \o a.name \o
        (IF mode = "Empty" THEN <<>>
         ELSE <<EQUALS>> \o ExpectedQuote(mode) \o ExpectedValue(a.value, mode)
                \o ExpectedQuote(mode))

RECURSIVE ExpectedAttributes(_)
ExpectedAttributes(attributes) ==
    IF attributes = <<>> THEN <<>>
    ELSE ExpectedAttribute(Head(attributes)) \o ExpectedAttributes(Tail(attributes))

ValidAttributeNames(node) ==
    \A i \in 1..Len(node.attributes) : validate_attribute_name(node.attributes[i].name)

IsElement(node) == node.type \in {"HtmlElement", "SvgElement"}

ExpectedOpeningTag(node) == <<LT>> \o node.name \o ExpectedAttributes(node.attributes) \o <<GT>>

ExpectedClosingTag(node) == LtSolidus \o node.name \o <<GT>>

\* C4: for each attribute with a valid name, in order, the opening tag holds ` name`
\* when the value is empty, and else ` name=`, the opening quote of the chosen mode,
\* the value with `&` as `&amp;` (and `"` as `&quot;` when double-quoted), and the
\* closing quote.
AttributesAreWrittenAsSpecified ==
    (Called(frag) /\ IsElement(tree) /\ ValidAttributeNames(tree) /\ limit >= NodeDepth(tree)) =>
        /\ frag.kind = "Ok"
        /\ starts_with(Out(frag), ExpectedOpeningTag(tree))

Delimiters == {TAB, LF, FF, CR, SPACE, GT, SOLIDUS}

\* `</`, the element's name in any ASCII case, and a delimiter, at index i of B
ClosesAt(B, name, i) ==
    /\ HasAt(B, i, LtSolidus)
    /\ i + 2 + Len(name) <= Len(B)
    /\ eq_ignore_ascii_case(SubSeq(B, i + 2, i + 1 + Len(name)), name)
    /\ B[i + 2 + Len(name)] \in Delimiters

\* C5: a script or style element whose content is Text(B) renders B verbatim
\* between its tags when B holds no end tag of the element, and else fails with
\* ElementClosedInRawText carrying the first such end tag through its delimiter.
RawTextIsVerbatimOrRejected ==
    (Called(frag) /\ IsElement(tree) /\ AsciiLowercase(tree.name) \in RawTextNames
        /\ tree.content[1].type = "Text" /\ limit >= 2) =>
        LET B == tree.content[1].text
            closing == {i \in 1..Len(B) : ClosesAt(B, tree.name, i)}
            first == CHOOSE i \in closing : \A j \in closing : i <= j
        IN  IF closing = {}
            THEN /\ frag.kind = "Ok"
                 /\ Out(frag) = <<LT>> \o tree.name \o <<GT>> \o B \o ExpectedClosingTag(tree)
            ELSE /\ frag.kind = "ElementClosedInRawText"
                 /\ frag.detail = SubSeq(B, first, first + 2 + Len(tree.name))

\* the bodies of the text nodes of a subtree, in order
RECURSIVE TextOf(_)
RECURSIVE TextOfNodes(_)
TextOfNodes(nodes) ==
    IF nodes = <<>> THEN <<>> ELSE TextOf(Head(nodes)) \o TextOfNodes(Tail(nodes))

TextOf(node) == IF node.type = "Text" THEN node.text ELSE TextOfNodes(node.content)

\* C7: a void element renders iff its content is DOM-empty, then as exactly
\* `<NAME ATTRS>`, and else fails with NonEmptyVoidElementContent; every other
\* element that renders ends with `</NAME>`, its content once between the tags.
VoidElementsHaveNoContentOthersAreClosed ==
    (Called(frag) /\ IsElement(tree) /\ ValidAttributeNames(tree) /\ limit >= NodeDepth(tree)) =>
        IF AsciiLowercase(tree.name) \in VoidNames
        THEN /\ frag.kind = "Ok" <=> dom_empty(tree.content[1])
             /\ dom_empty(tree.content[1]) => Out(frag) = ExpectedOpeningTag(tree)
             /\ ~dom_empty(tree.content[1]) => frag.kind = "NonEmptyVoidElementContent"
        ELSE frag.kind = "Ok" =>
                \E nl \in {<<>>, <<LF>>} :
                    Out(frag) = ExpectedOpeningTag(tree) \o nl \o TextOf(tree.content[1])
                                    \o ExpectedClosingTag(tree)

PreLikeNames ==
    { <<112, 114, 101>>,                         \* pre
      <<108, 105, 115, 116, 105, 110, 103>>,     \* listing
      <<116, 101, 120, 116, 97, 114, 101, 97>> } \* textarea

\* C8: an element named pre, listing or textarea (any ASCII case) emits exactly one
\* newline right after the `>` of its opening tag and before its content.
PreLikeElementsStartWithNewline ==
    (Called(frag) /\ IsElement(tree) /\ AsciiLowercase(tree.name) \in PreLikeNames
        /\ frag.kind = "Ok") =>
        /\ starts_with(Out(frag), <<LT>> \o tree.name)
        /\ ends_with(Out(frag), <<GT, LF>> \o TextOf(tree.content[1]) \o ExpectedClosingTag(tree))

(***************************************************************************)
(* C11: element names.                                                     *)
(***************************************************************************)
\* the names the classifier is to accept
AcceptedName(name) ==
    /\ name # <<>>
    /\ is_ascii_alphanumeric(name[1])
    /\ \A i \in 1..Len(name) :
          \/ is_ascii_alphanumeric(name[i])
          \/ name[i] = MINUS
          \/ PotentialCustomElementNameCharacter(name[i])
    /\ (\E i \in 1..Len(name) : PotentialCustomElementNameCharacter(name[i]))
          => \E i \in 1..Len(name) : name[i] = MINUS

\* the kind of an accepted name: fixed iff the whole name is a fixed name,
\* ASCII case-insensitively
ExpectedKind(name) ==
    LET l == AsciiLowercase(name)
    IN  CASE l \in VoidNames -> "Void"
          [] l \in TemplateNames -> "Template"
          [] l \in RawTextNames -> "RawText"
          [] l \in TextareaNames -> "EscapableRawTextTextarea"
          [] l \in TitleNames -> "EscapableRawText"
          [] OTHER -> "Normal"

\* C11: ElementKind::detect accepts exactly the names that are non-empty, start
\* with an ASCII alphanumeric, consist of ASCII alphanumerics, `-` and
\* continuation code points, and hold a `-` whenever they hold a continuation
\* code point; every other name fails with InvalidElementName carrying the
\* name; an accepted name has a fixed kind iff the whole name is a fixed name
\* ASCII case-insensitively, and is Normal otherwise.
ElementNamesAreClassified ==
    (Called(frag) /\ IsElement(tree)) =>
        LET detected == ElementKind_detect(tree.name)
        IN  /\ detected.ok <=> AcceptedName(tree.name)
            /\ ~AcceptedName(tree.name) =>
                  frag.kind = "InvalidElementName" /\ frag.detail = tree.name
            /\ AcceptedName(tree.name) =>
                  /\ frag.kind # "InvalidElementName"
                  /\ detected.kind = ExpectedKind(tree.name)

(***************************************************************************)
(* C12: the mode of an attribute value.                                    *)
(***************************************************************************)
\* the code points an unquoted value may not hold
UnquotedForbidden == {TAB, LF, FF, CR, SPACE, EQUALS, LT, GT, BACKTICK, QUOT, APOS}

Holds(s, S) == \E i \in 1..Len(s) : s[i] \in S

\* the mode as the claim decides it
ExpectedMode(V) ==
    IF V = <<>> THEN "Empty"
    ELSE IF ~Holds(V, UnquotedForbidden) THEN "Unquoted"
    ELSE IF ~Holds(V, {QUOT}) THEN "DoubleQuoted"
    ELSE IF ~Holds(V, {APOS}) THEN "SingleQuoted"
    ELSE "DoubleQuoted"

\* the text written for the value, between what opens and what closes it
EmittedValue(V) == Out(ValueChars(V, 1, AttributeValueMode_detect(V), Sink(0)))

\* C12: AttributeValueMode::detect(V) is Empty iff V is empty, else Unquoted iff V
\* holds no TAB, LF, FF, CR, SPACE, `=`, `<`, `>`, backtick, `"`, `'`, else
\* DoubleQuoted if V holds no `"`, else SingleQuoted if V holds no `'`, else
\* DoubleQuoted; and the value text written never holds the character that would
\* end it: none of those characters when unquoted, no `'` when single-quoted, no
\* `"` when double-quoted.
AttributeValueModeIsLegal ==
    (Called(frag) /\ IsElement(tree) /\ ValidAttributeNames(tree)) =>
        \A i \in 1..Len(tree.attributes) :
            LET V == tree.attributes[i].value
                mode == AttributeValueMode_detect(V)
                e == EmittedValue(V)
            IN  /\ mode = ExpectedMode(V)
                /\ mode = "Empty" <=> V = <<>>
                /\ mode = "Unquoted" => ~Holds(e, UnquotedForbidden)
                /\ mode = "SingleQuoted" => ~Holds(e, {APOS})
                /\ mode = "DoubleQuoted" => ~Holds(e, {QUOT})
                /\ frag.kind = "Ok"
                /\ \/ Contains(Out(frag), e \o ExpectedQuote(mode) \o <<GT>>)
                   \/ Contains(Out(frag), e \o ExpectedQuote(mode) \o <<SPACE>>)

AttributeWithBothQuotesRendered ==
    /\ Called(frag) /\ frag.kind = "Ok" /\ IsElement(tree)
    /\ \E i \in 1..Len(tree.attributes) :
          /\ Holds(tree.attributes[i].value, {QUOT})
          /\ Holds(tree.attributes[i].value, {APOS})
          /\ Contains(Out(frag), EntityQuot \o <<APOS, QUOT>>)

(***************************************************************************)
(* C13: the body of a raw-text or escapable-raw-text element.              *)
(***************************************************************************)
\* what was written between the element's opening tag and its closing tag
WrittenBody(node, out) ==
    SubSeq(out, Len(ExpectedOpeningTag(node)) + 1, Len(out) - Len(ExpectedClosingTag(node)))

\* C13: for every successfully rendered script, style, title or textarea element
\* whose content is Text nodes under Memoized/Multi/Keyed wrappers, the text
\* written between its opening tag and its closing tag holds no `</` followed by
\* the element's name (ASCII case-insensitive) and one of TAB, LF, FF, CR, SPACE,
\* `>`, `/`, also when the sequence is split across two adjacent Text nodes.
BodyNeverClosesItsElement ==
    (/\ Called(frag) /\ frag.kind = "Ok" /\ IsElement(tree)
     /\ ExpectedKind(tree.name) \in {"RawText", "EscapableRawText", "EscapableRawTextTextarea"})
        => LET body == WrittenBody(tree, Out(frag))
           IN  \A i \in 1..Len(body) : ~ClosesAt(body, tree.name, i)

====
